---- MODULE Spec2Model ----
(***************************************************************************)
(* URL shortener (saketkumarjha/22mc3043).  Two implementations share one  *)
(* design: the controller/service split (UrlController + UrlService) and   *)
(* the monolithic express app (urlShortenerMicroservice.tsx).  Each has a  *)
(* module-level Map `urlDatabase`.  Every handler is an async function     *)
(* that is suspended at its `await Log(...)` calls and, in the controller, *)
(* from the moment a service function it awaits has settled to the turn of *)
(* the microtask queue in which it resumes; the code between two such      *)
(* points runs without interleaving (one JS thread), and a loop that never *)
(* reaches an await keeps the thread for ever.                             *)
(*                                                                         *)
(* The clock counts minutes, from 2026-11-01T05:59:00Z on, one minute      *)
(* before daylight saving time ends in America/New_York.  A validity is    *)
(* given in parts of a minute, PartsPerMinute to the minute, so that a     *)
(* validity of a fraction of a minute is an input.  A code is a sequence   *)
(* of one-character strings.                                               *)
(***************************************************************************)
EXTENDS Integers, Sequences, FiniteSets, TLC

VARIABLES impl, random, logger, zone, urlDatabase, now, req

vars == <<impl, random, logger, zone, urlDatabase, now, req>>

\* What a run fixes once and for all: the implementation that serves it, the
\* values its Math.random() can return, the state of the remote logger and
\* the time zone of the process (TZ).
env == <<impl, random, logger, zone>>

\* ------------------------------------------------------------------ bounds
MaxTime == 2
PartsPerMinute == 2

\* `validity = 30` (controller line 21, service line 26, monolith line 44)
DefaultValidity == 30

Slots == {1, 2, 3}

Min(a, b) == IF a < b THEN a ELSE b

\* ----------------------------------------------------------- optional values
\* A body field, header or property that may be absent (undefined).
Undefined(d) == [given |-> FALSE, val |-> d]
Some(v) == [given |-> TRUE, val |-> v]

NoStr == Undefined("")
NoNum == Undefined(0)
NoCode == Undefined(<<>>)

\* JS truthiness of an optional string / of an optional code: undefined and the
\* empty string are falsy.
TruthyStr(o) == o.given /\ o.val # ""
TruthyCode(o) == o.given /\ o.val # <<>>

\* ------------------------------------------------------------------- codes
Digits == {"0", "1", "2", "3", "4", "5", "6", "7", "8", "9"}
Lower == {"a", "b", "c", "d", "e", "f", "g", "h", "i", "j", "k", "l", "m",
          "n", "o", "p", "q", "r", "s", "t", "u", "v", "w", "x", "y", "z"}
Upper == {"A", "B", "C", "D", "E", "F", "G", "H", "I", "J", "K", "L", "M",
          "N", "O", "P", "Q", "R", "S", "T", "U", "V", "W", "X", "Y", "Z"}

\* /^[a-zA-Z0-9]+$/.test(s)
AlnumTest(s) == Len(s) >= 1 /\ \A i \in 1..Len(s) : s[i] \in Lower \cup Upper \cup Digits

MinCodeLen == 3
MaxCodeLen == 10

\* The negation of the rejecting condition
\*   !/^[a-zA-Z0-9]+$/.test(c) || c.length < 3 || c.length > 10
ShortcodeFormatOk(s) == AlnumTest(s) /\ ~(Len(s) < MinCodeLen) /\ ~(Len(s) > MaxCodeLen)

\* The spec's ^[A-Za-z0-9]{3,10}$
MatchesSpecPattern(s) ==
    /\ Len(s) \in 3..10
    /\ \A i \in 1..Len(s) : s[i] \in Lower \cup Upper \cup Digits

CodeAb == <<"a", "b">>
Code0k9 == <<"0", "k", "9">>
CodeSym == <<"a", "-", "c">>
CodeI == <<"i">>
Code10 == <<"A", "b", "c", "d", "e", "f", "g", "h", "i", "9">>
Code11 == <<"A", "b", "c", "d", "e", "f", "g", "h", "i", "9", "z">>
CodeGen6 == <<"x", "7", "k", "2", "p", "9">>
CodeHealth == <<"h", "e", "a", "l", "t", "h">>

\* Math.random().toString(36) after "0.": the base-36 digits of the random
\* double.  0 prints as "0" (no digits), 0.5 as "0.i", 1/64 as "0.0k9", a
\* typical double has eleven digits or so.
RandomDigits == { <<>>, CodeI, Code0k9, CodeGen6 \o <<"q", "4", "m", "1", "c">> }

GenLen == 6

\* .substring(2, 8) of "0." \o digits
generateShortCode(digits) == SubSeq(digits, 1, Min(Len(digits), GenLen))

\* -------------------------------------------------------------------- URLs
UrlA == "https://a.example/page"
UrlB == "https://b.example/"

\* new URL(url) succeeds exactly for absolute URLs; of the strings the model
\* sends, these.
isValidUrl(url) == url \in {UrlA, UrlB}

\* -------------------------------------------------------------------- time
\* One `new Date()`: the clock never runs backwards, and may have moved on
\* since the last reading.
Readings(from) == { t \in from..(from + 1) : t <= MaxTime }

\* The instant 0 of the clock, 2026-11-01T05:59:00Z, in minutes since
\* 1970-01-01T00:00Z.
EpochMinutes == 29891879

\* The time value of an Invalid Date (NaN): a value off the time line, which
\* no comparison with an instant holds for.
NaN == 0 - 999999

Zones == {"UTC", "America/New_York"}

\* The calendar of a count of minutes from 1970-01-01T00:00: the days gone,
\* the minute of the day, the day of the week (0 is Sunday; 1970-01-01 was a
\* Thursday) and the month and day of the month (proleptic Gregorian).
DaysOf(minutes) == minutes \div 1440
MinuteOfDay(minutes) == minutes % 1440
WeekDay(days) == (days + 4) % 7
MonthDay(days) ==
    LET z == days + 719468
        era == z \div 146097
        doe == z - era * 146097
        yoe == (doe - doe \div 1460 + doe \div 36524 - doe \div 146096) \div 365
        doy == doe - (365 * yoe + yoe \div 4 - yoe \div 100)
        mp == (5 * doy + 2) \div 153
    IN [month |-> IF mp < 10 THEN mp + 3 ELSE mp - 9,
        day |-> doy - (153 * mp + 2) \div 5 + 1]

\* Daylight saving time of America/New_York (the rule in force since 2007):
\* from the second Sunday of March to the first Sunday of November.
\* `minutes` counts from 1970-01-01T00:00 on a clock that is not set forward
\* or back within the day; daylight saving time begins at minute `begins` of
\* the second Sunday of March and ends at minute `ends` of the first Sunday
\* of November of that clock.
DaylightSaving(minutes, begins, ends) ==
    LET days == DaysOf(minutes)
        date == MonthDay(days)
        lastSunday == date.day - WeekDay(days)
        onSunday == WeekDay(days) = 0
    IN IF date.month = 3
       THEN /\ lastSunday >= 8
            /\ (onSunday /\ date.day <= 14) => MinuteOfDay(minutes) >= begins
       ELSE IF date.month = 11
       THEN \/ lastSunday < 1
            \/ onSunday /\ date.day <= 7 /\ MinuteOfDay(minutes) < ends
       ELSE date.month \in 4..10

\* The offset of local time from UTC at instant t, in minutes.  In New York
\* EDT (-04:00) is in force from 02:00 EST to 01:00 EST (02:00 EDT) of the two
\* Sundays, EST (-05:00) otherwise; instant 1, 2026-11-01T06:00Z, is the end
\* of daylight saving time of 2026.
ZoneOffset(tz, t) ==
    IF tz = "America/New_York"
    THEN (IF DaylightSaving(EpochMinutes + t - 300, 120, 60)
          THEN 0 - 240 ELSE 0 - 300)
    ELSE 0

\* LocalTime(t) of ECMA-262
LocalTime(tz, t) == t + ZoneOffset(tz, t)

\* UTC(t) of ECMA-262: the instant of a local time, with the offset in force
\* at that local time.  A local time that occurs twice, when the clocks are
\* set back (01:00 to 01:59 of the Sunday of November), and one that does not
\* occur, when they are set forward (02:00 to 02:59 of the Sunday of March),
\* are taken with the offset in force before the change.
UTC(tz, local) ==
    IF tz = "America/New_York"
    THEN (IF DaylightSaving(EpochMinutes + local, 180, 120)
          THEN local + 240 ELSE local + 300)
    ELSE local

\* A validity of 2 * 10^11 minutes, beyond the integers of the model.
HugeValidity == [given |-> TRUE, val |-> 0, huge |-> TRUE]
IsHuge(validity) == "huge" \in DOMAIN validity

\* expiry.setMinutes(expiry.getMinutes() + validity): the minute field of the
\* LOCAL time is replaced; it takes the integer part of its argument
\* (ToIntegerOrInfinity), seconds and milliseconds are kept; the local time
\* got is turned back into an instant with the offset in force at that local
\* time, and clipped (TimeClip of ECMA-262): a time value beyond
\* 8.64 * 10^15 ms, that is 1.44 * 10^11 minutes, from 1970 is NaN, which is
\* what the huge validity gives at every instant of the model.  `v` is the
\* validity in parts of a minute when it is not the huge one.
SetMinutesPlus(tz, t, huge, v) ==
    IF huge THEN NaN
    ELSE UTC(tz, LocalTime(tz, t) + (v \div PartsPerMinute))

\* Date.prototype.toISOString throws a RangeError for an Invalid Date
ToISOStringThrows(t) == t = NaN
toISOString(t) == [iso |-> t]
NoIso == [iso |-> -1]

\* ------------------------------------------------------------ the registry
\* const urlDatabase = new Map<string, ShortUrl>()
EmptyMap == [c \in {} |-> 0]
\* Mutant: a collision check that never finds the code.
HasNever(db, code) == FALSE

\* urlDatabase.has(code), the collision check of a creation
Has(db, code) == code \in DOMAIN db
\* urlDatabase.get(code) is a record (not undefined)
Found(db, code) == code \in DOMAIN db
MapSet(db, code, rec) == [c \in DOMAIN db \cup {code} |-> IF c = code THEN rec ELSE db[c]]

\* The ShortUrl object literal (service lines 74-82, monolith lines 88-96).
NewShortUrl(code, url, expiry, createdAt) ==
    [id |-> code, originalUrl |-> url, shortCode |-> code, expiry |-> expiry,
     clickCount |-> 0, clicks |-> <<>>, createdAt |-> createdAt]

\* Mutant: the link already counts as expired at the instant of its expiry.
isExpiredAtBoundary(shortUrl, t) == shortUrl.expiry # NaN /\ t >= shortUrl.expiry

\* return new Date() > shortUrl.expiry, with t the reading of new Date(); the
\* comparison with an Invalid Date is false
isExpired(shortUrl, t) == shortUrl.expiry # NaN /\ t > shortUrl.expiry

\* location: req.ip || "unknown"
LocationOf(ip) == IF TruthyStr(ip) THEN Some(ip.val) ELSE Some("unknown")

ClickData(t, referrer, location) ==
    [timestamp |-> t, referrer |-> referrer, location |-> location]

\* Mutant: the click is pushed and the counter is left alone.
PushClickNoCount(shortUrl, clickData) ==
    [shortUrl EXCEPT !.clicks = Append(@, clickData)]

\* Mutant: the click replaces the history instead of extending it.
PushClickOverwrite(shortUrl, clickData) ==
    [shortUrl EXCEPT !.clicks = <<clickData>>, !.clickCount = 1]

\* Mutant: a click renews the link until the time of the click.
PushClickExtendsLife(shortUrl, clickData) ==
    [shortUrl EXCEPT !.clicks = Append(@, clickData), !.clickCount = @ + 1,
                     !.expiry = clickData.timestamp + 1]

\* Mutant: the click is put in front of the history (unshift for push).
PushClickInFront(shortUrl, clickData) ==
    [shortUrl EXCEPT !.clicks = <<clickData>> \o @, !.clickCount = @ + 1]

\* shortUrl.clicks.push(clickData); shortUrl.clickCount++
PushClick(shortUrl, clickData) ==
    [shortUrl EXCEPT !.clicks = Append(@, clickData), !.clickCount = @ + 1]

\* UrlService.recordClick: a missing record is tolerated silently.
recordClick(db, code, clickData) ==
    IF Found(db, code) THEN [db EXCEPT ![code] = PushClick(@, clickData)] ELSE db

\* clickDetails: shortUrl.clicks.map(click => ({...}))
ClickDetail(click) ==
    [timestamp |-> toISOString(click.timestamp),
     referrer |-> IF TruthyStr(click.referrer) THEN click.referrer.val ELSE "direct",
     location |-> IF TruthyStr(click.location) THEN click.location.val ELSE "unknown"]

\* Mutant: the click details leave out the latest click.
StatisticsWithoutLastClick(shortUrl) ==
    [totalClicks |-> shortUrl.clickCount,
     originalUrl |-> shortUrl.originalUrl,
     creationDate |-> toISOString(shortUrl.createdAt),
     expiryDate |-> toISOString(shortUrl.expiry),
     clickDetails |-> [i \in 1..(Len(shortUrl.clicks) - 1) |-> ClickDetail(shortUrl.clicks[i])]]

\* The StatisticsResponse object literal.
Statistics(shortUrl) ==
    [totalClicks |-> shortUrl.clickCount,
     originalUrl |-> shortUrl.originalUrl,
     creationDate |-> toISOString(shortUrl.createdAt),
     expiryDate |-> toISOString(shortUrl.expiry),
     clickDetails |-> [i \in 1..Len(shortUrl.clicks) |-> ClickDetail(shortUrl.clicks[i])]]

\* const { url, validity = 30, shortcode } = req.body, in parts of a minute
EffValidity(validity) ==
    IF validity.given THEN validity.val ELSE DefaultValidity * PartsPerMinute

\* validity <= 0
ValidityNotPositive(validity) == ~IsHuge(validity) /\ EffValidity(validity) <= 0

\* ------------------------------------------------------------------ logging
\* How the request Log sends can end: an OK answer, an answer that is not OK,
\* or an exception (fetch rejects, the body is not JSON).
LogOutcomes == {"ok", "not ok", "throws"}

\* The remote logger of a run: it gives any outcome, call by call, or always
\* the same failure.
LoggerStates == {"unreliable", "unreachable", "erroring"}

LoggerGives(state) ==
    IF state = "unreachable" THEN {"throws"}
    ELSE IF state = "erroring" THEN {"not ok"}
    ELSE LogOutcomes

\* The try block of Log (lines 20-41).
LogTry(outcome) ==
    IF outcome = "ok" THEN [raised |-> FALSE, value |-> "result"]
    ELSE IF outcome = "not ok" THEN [raised |-> FALSE, value |-> "null"]
    ELSE [raised |-> TRUE, value |-> "error"]

\* Mutant: Log without its catch block.
LogRethrows(outcome) == LogTry(outcome)

\* Log: whatever the try block throws is caught, reported on the console and
\* turned into null (lines 42-45).
Log(outcome) ==
    IF LogTry(outcome).raised THEN [raised |-> FALSE, value |-> "null"]
    ELSE LogTry(outcome)

\* ----------------------------------------------------------------- routing
SegShorturls == <<"s", "h", "o", "r", "t", "u", "r", "l", "s">>

\* A segment of a route's path: a literal, or a parameter such as :shortcode.
Lit(seg) == [param |-> FALSE, lit |-> seg]
Param == [param |-> TRUE, lit |-> <<>>]

Route(method, pattern, handler) ==
    [method |-> method, pattern |-> pattern, handler |-> handler]

\* The routes in the order they are registered: router.post / router.get of
\* urlRoutes.ts (mounted at "/"), app.post / app.get of the monolith, where
\* '/health' comes after '/:shortcode'.
Routes(implName) ==
    IF implName = "controller"
    THEN << Route("POST", <<Lit(SegShorturls)>>, "create"),
            Route("GET", <<Lit(SegShorturls), Param>>, "stats"),
            Route("GET", <<Param>>, "visit") >>
    ELSE << Route("POST", <<Lit(SegShorturls)>>, "create"),
            Route("GET", <<Param>>, "visit"),
            Route("GET", <<Lit(SegShorturls), Param>>, "stats"),
            Route("GET", <<Lit(CodeHealth)>>, "health") >>

\* express matches a path against a route segment by segment.
Matches(route, method, path) ==
    /\ route.method = method
    /\ Len(route.pattern) = Len(path)
    /\ \A i \in 1..Len(path) : route.pattern[i].param \/ route.pattern[i].lit = path[i]

\* The handler of the first route that matches; none leaves express's own 404.
Dispatch(routes, method, path) ==
    LET hits == {i \in 1..Len(routes) : Matches(routes[i], method, path)}
    IN IF hits = {} THEN "none"
       ELSE routes[CHOOSE i \in hits : \A j \in hits : i <= j].handler

\* ---------------------------------------------------------------- requests
\* A request: what the client sends (body, path parameter, headers), the
\* handler's position (pc: "new" before the request arrives, then the await
\* the handler is suspended at, "done" once the response is sent), the
\* handler's locals and the response.
\*   kind   : the handler the router gives the request to
\*   path   : the segments of the request's path
\*   free0  : the requested code was absent from the registry on arrival
\*   texp   : the clock reading the expiry was computed from
\*   tcheck : the clock reading of the expiry check (visit), the clock at the
\*            lookup (statistics)
NoReq ==
    [kind |-> "none", pc |-> "none", method |-> "", path |-> <<>>,
     url |-> NoStr, validity |-> NoNum, shortcode |-> NoCode,
     referer |-> NoStr, ip |-> NoStr,
     free0 |-> FALSE, found |-> FALSE, finalShortCode |-> NoCode, texp |-> -1, tcheck |-> -1,
     thrown |-> "",
     status |-> 0, error |-> "", shortLink |-> NoCode, expiry |-> NoIso,
     location |-> "", statistics |-> <<>>]

\* POST /shorturls with body {url, validity, shortcode}; validity in parts of a minute.
Post(url, validity, shortcode) ==
    [NoReq EXCEPT !.kind = "create", !.pc = "new",
                  !.method = "POST", !.path = <<SegShorturls>>,
                  !.url = url, !.validity = validity, !.shortcode = shortcode]

\* GET /:shortcode with a Referer header and a connecting address.
Visit(code, referer, ip) ==
    [NoReq EXCEPT !.kind = "visit", !.pc = "new", !.shortcode = Some(code),
                  !.method = "GET", !.path = <<code>>,
                  !.referer = referer, !.ip = ip]

\* GET /shorturls/:shortcode
Stats(code) ==
    [NoReq EXCEPT !.kind = "stats", !.pc = "new", !.shortcode = Some(code),
                  !.method = "GET", !.path = <<SegShorturls, code>>]

\* GET /health: the router has yet to choose its handler.
Health == [NoReq EXCEPT !.kind = "health", !.pc = "new",
                        !.method = "GET", !.path = <<CodeHealth>>]

\* The requests every workload mixes freely: creations with a generated and
\* with a requested code (two URLs, a whole and a fractional validity), visits
\* and statistics of the requested code.
CoreRequests ==
    << Post(Some(UrlA), NoNum, NoCode),
       Post(Some(UrlA), Some(PartsPerMinute), Some(Code0k9)),
       Post(Some(UrlB), Some(PartsPerMinute + 1), Some(Code0k9)),
       Visit(Code0k9, NoStr, Some("10.0.0.7")),
       Visit(Code0k9, Some("https://ref.example/"), NoStr),
       Stats(Code0k9) >>

\* The requests at the edges of the input space: a missing, empty or malformed
\* url, a validity of zero, below zero and below one minute, requested codes
\* that are empty, too short, too long, with a symbol, of the generator's
\* one-character shape, of the longest legal length, and codes never created.
EdgeRequests ==
    << Post(NoStr, NoNum, NoCode),
       Post(Some(""), Some(PartsPerMinute), Some(Code0k9)),
       Post(Some("not a url"), NoNum, Some(Code0k9)),
       Post(Some(UrlA), Some(0), NoCode),
       Post(Some(UrlA), Some(0 - 5 * PartsPerMinute), Some(Code0k9)),
       Post(Some(UrlB), Some(1), Some(Code0k9)),
       Post(Some(UrlB), NoNum, Some(<<>>)),
       Post(Some(UrlA), NoNum, Some(CodeAb)),
       Post(Some(UrlA), NoNum, Some(Code11)),
       Post(Some(UrlB), NoNum, Some(CodeSym)),
       Post(Some(UrlB), NoNum, Some(CodeI)),
       Post(Some(UrlB), Some(PartsPerMinute), Some(Code10)),
       Visit(CodeGen6, NoStr, NoStr),
       Visit(Code11, NoStr, NoStr),
       Stats(CodeI),
       Stats(Code11) >>

\* A workload: the requests of one run, which arrive in any order and overlap
\* in any way.  Every three core requests that are not three times the same
\* one, and every core request with an edge request.
Workloads ==
    { [r \in Slots |-> CoreRequests[w[r]]] :
        w \in { v \in [Slots -> 1..Len(CoreRequests)] :
                  v[1] <= v[2] /\ v[2] <= v[3] /\ v[1] # v[3] } }
    \cup
    { [r \in Slots |-> IF r = 1 THEN CoreRequests[w[1]]
                       ELSE IF r = 2 THEN EdgeRequests[w[2]] ELSE NoReq] :
        w \in (1..Len(CoreRequests)) \X (1..Len(EdgeRequests)) }

\* GET /health before and after a link is created under the code "health".
RoutingWorkloads ==
    { <<Health, NoReq, NoReq>>,
      <<Post(Some(UrlA), Some(PartsPerMinute), Some(CodeHealth)), Health, Health>> }

\* Runs in which the generator has few values to give, so that a creation can
\* find every one of them taken.
ExhaustionWorkloads ==
    { <<Post(Some(UrlA), NoNum, NoCode), Post(Some(UrlB), NoNum, NoCode),
        Visit(CodeI, NoStr, NoStr)>>,
      <<Post(Some(UrlA), NoNum, NoCode), Post(Some(UrlB), NoNum, Some(<<>>)),
        Stats(CodeI)>> }

FewRandomDigits == { {CodeI}, {<<>>} }

\* A creation, a visit and the statistics of one code, for the runs in local
\* time of New York and for a validity of 2 * 10^11 minutes.
DateWorkloads ==
    { <<Post(Some(UrlA), Some(PartsPerMinute), Some(Code0k9)),
        Visit(Code0k9, NoStr, NoStr), Stats(Code0k9)>>,
      <<Post(Some(UrlA), HugeValidity, Some(Code0k9)),
        Visit(Code0k9, NoStr, NoStr), Stats(Code0k9)>> }

\* Creations that race for one code, one of them with the validity of
\* 2 * 10^11 minutes, next to a creation without a requested code.
HugeRaceWorkloads ==
    { <<Post(Some(UrlA), HugeValidity, Some(Code0k9)),
        Post(Some(UrlB), Some(PartsPerMinute), Some(Code0k9)),
        Post(Some(UrlB), NoNum, NoCode)>> }

\* A creation, a visit and the statistics of one code, for the runs in which
\* the logger always fails.
LoggerWorkloads ==
    { <<Post(Some(UrlA), Some(PartsPerMinute), Some(Code0k9)),
        Visit(Code0k9, NoStr, NoStr), Stats(Code0k9)>> }

Responded(r) == req[r].pc = "done"
InFlight(r) == req[r].pc \notin {"none", "new", "done"}

\* The do-while of the generator (service lines 59-61, monolith 78-80) has no
\* await in it: a handler that cannot leave it keeps the one thread, and no
\* other handler or continuation runs.
Spinning(r) == req[r].pc = "spin"
EventLoopFree == \A r \in Slots : ~Spinning(r)

\* For each state of the logger: does a Log call a handler awaits come back
\* into the handler, that is, does it return rather than raise with one of the
\* outcomes the logger gives?  Its value is discarded (every call is the
\* statement `await Log(...)`).
LogComesBack ==
    [state \in LoggerStates |->
        \E outcome \in LoggerGives(state) : ~Log(outcome).raised]

AwaitLog == LogComesBack[logger]

\* Every value the generator can return is a key of the registry.
GeneratorExhausted(db) == \A digits \in random : Has(db, generateShortCode(digits))

Init ==
    /\ impl \in {"controller", "monolith"}
    /\ urlDatabase = EmptyMap
    /\ now = 0
    /\ \/ /\ req \in Workloads \cup RoutingWorkloads \cup HugeRaceWorkloads
          /\ random = RandomDigits /\ logger = "unreliable" /\ zone = "UTC"
       \/ /\ req \in ExhaustionWorkloads
          /\ random \in FewRandomDigits /\ logger = "unreliable" /\ zone = "UTC"
       \/ /\ req \in LoggerWorkloads
          /\ random = RandomDigits /\ logger \in LoggerStates \ {"unreliable"}
          /\ zone = "UTC"
       \/ /\ req \in DateWorkloads
          /\ random = RandomDigits /\ logger = "unreliable" /\ zone \in Zones

\* ---------------------------------------------------------------- arrivals
\* POST /shorturls reaches the handler, which runs to its first await Log.
PostShortUrls(r) ==
    /\ req[r].kind = "create" /\ req[r].pc = "new"
    /\ EventLoopFree
    /\ Dispatch(Routes(impl), req[r].method, req[r].path) = "create"
    /\ req' = [req EXCEPT ![r].pc = "entry",
                          ![r].free0 = ~Has(urlDatabase, req[r].shortcode.val)]
    /\ UNCHANGED <<env, urlDatabase, now>>

\* GET /:shortcode reaches the handler.
GetShortcode(r) ==
    /\ req[r].kind = "visit" /\ req[r].pc = "new"
    /\ EventLoopFree
    /\ Dispatch(Routes(impl), req[r].method, req[r].path) = "visit"
    /\ req' = [req EXCEPT ![r].pc = "entry"]
    /\ UNCHANGED <<env, urlDatabase, now>>

\* GET /shorturls/:shortcode reaches the handler.
GetShorturlsShortcode(r) ==
    /\ req[r].kind = "stats" /\ req[r].pc = "new"
    /\ EventLoopFree
    /\ Dispatch(Routes(impl), req[r].method, req[r].path) = "stats"
    /\ req' = [req EXCEPT ![r].pc = "entry"]
    /\ UNCHANGED <<env, urlDatabase, now>>

\* GET /health reaches the router.  The handler the router picks runs to its
\* first await Log: the redirect handler takes "health" for its :shortcode; the
\* health handler (monolith lines 204-207) has only its response left.
GetHealth(r) ==
    /\ req[r].kind = "health" /\ req[r].pc = "new"
    /\ EventLoopFree
    /\ LET handler == Dispatch(Routes(impl), req[r].method, req[r].path)
       IN /\ handler \in {"visit", "health"}
          /\ req' = [req EXCEPT ![r] =
                       IF handler = "visit"
                       THEN [req[r] EXCEPT !.kind = "visit", !.pc = "entry",
                                           !.shortcode = Some(req[r].path[1])]
                       ELSE [req[r] EXCEPT !.pc = "reply", !.status = 200]]
    /\ UNCHANGED <<env, urlDatabase, now>>

\* ------------------------------------------------------- response helpers
\* The handler has decided on an error response and awaits the Log before it.
Fail(q, status, error) == [q EXCEPT !.pc = "reply", !.status = status, !.error = error]

\* Mutant: the record is stored before the request is found invalid.
RejectAfterStore(r, q) ==
    /\ req' = [req EXCEPT ![r] = q]
    /\ urlDatabase' = MapSet(urlDatabase, q.shortcode.val,
                             NewShortUrl(q.shortcode.val, q.url.val, now, now))
    /\ UNCHANGED now

\* A creation is refused (return res.status(4xx), or a throw the controller
\* turns into one): the handler moves on, nothing is stored.
Reject(r, q) ==
    /\ req' = [req EXCEPT ![r] = q]
    /\ UNCHANGED <<urlDatabase, now>>

\* shortLink: `https://hostname:port/${code}`, expiry: expiry.toISOString(),
\* the answer that is sent after the Log calls that follow the store, unless
\* toISOString throws then.
Created(q, code, expiry, pcNext) ==
    [q EXCEPT !.pc = pcNext, !.status = 201, !.shortLink = Some(code),
              !.expiry = IF ToISOStringThrows(expiry) THEN NoIso
                         ELSE toISOString(expiry)]

\* Lines 64-85 of the service, 83-99 of the monolith: read the clock, compute
\* the expiry, build the record (createdAt is a second reading) and store it.
StoreShortUrl(r, code, pcNext) ==
    \E t1 \in Readings(now) : \E t2 \in Readings(t1) :
        LET q == req[r]
            expiry == SetMinutesPlus(zone, t1, IsHuge(q.validity),
                                     EffValidity(q.validity))
            shortUrl == NewShortUrl(code, q.url.val, expiry, t2)
        IN /\ urlDatabase' = MapSet(urlDatabase, code, shortUrl)
           /\ now' = t2
           /\ req' = [req EXCEPT ![r] =
                        [Created(q, code, expiry, pcNext) EXCEPT
                            !.finalShortCode = Some(code), !.texp = t1]]

\* ------------------------------------------- POST /shorturls, controller
\* UrlController.createUrl after its first Log: lines 21-64, up to the Log at
\* the head of UrlService.createShortUrl.
CtlCreateUrl(r) ==
    /\ impl = "controller" /\ req[r].kind = "create" /\ req[r].pc = "entry"
    /\ EventLoopFree /\ AwaitLog
    /\ LET q == req[r]
       IN IF ~TruthyStr(q.url) THEN Reject(r, Fail(q, 400, "URL is required"))
          ELSE IF ~isValidUrl(q.url.val) THEN Reject(r, Fail(q, 400, "Invalid URL format"))
          ELSE IF ValidityNotPositive(q.validity)
               THEN Reject(r, Fail(q, 400, "Validity must be positive integer"))
          ELSE /\ req' = [req EXCEPT ![r].pc = "svc_create"]
               /\ UNCHANGED <<urlDatabase, now>>
    /\ UNCHANGED env

\* The messages of the errors createShortUrl throws (42, 55, 70).
ErrCollision == "Shortcode already exists"
ErrBadFormat == "Shortcode must be alphanumeric, 3-10 characters"
ErrGenerate == "Failed to generate shortcode"

\* A service function throws: the promise the handler awaits is rejected, and
\* the handler's catch block runs in a later turn.
Rejected(q, message) == [q EXCEPT !.pc = "svc_rejected", !.thrown = message]

\* UrlService.createShortUrl after its first Log: lines 31-85, to the next Log
\* (36, 49 or 87) or to the throw of line 70, which rejects its promise.
SvcCreateShortUrl(r) ==
    /\ impl = "controller" /\ req[r].kind = "create" /\ req[r].pc = "svc_create"
    /\ EventLoopFree /\ AwaitLog
    /\ LET q == req[r]
           customShortcode == q.shortcode
       IN IF TruthyCode(customShortcode)
          THEN IF Has(urlDatabase, customShortcode.val)
               THEN Reject(r, [q EXCEPT !.pc = "svc_collision"])
               ELSE IF ~ShortcodeFormatOk(customShortcode.val)
               THEN Reject(r, [q EXCEPT !.pc = "svc_badformat"])
               ELSE StoreShortUrl(r, customShortcode.val, "svc_stored")
          ELSE IF GeneratorExhausted(urlDatabase)
          THEN /\ req' = [req EXCEPT ![r].pc = "spin"]
               /\ UNCHANGED <<urlDatabase, now>>
          ELSE \E digits \in random :
                 LET finalShortCode == generateShortCode(digits)
                 IN /\ ~Has(urlDatabase, finalShortCode)
                    /\ IF finalShortCode = <<>>
                       THEN \E t1 \in Readings(now) :
                              /\ now' = t1
                              /\ req' = [req EXCEPT ![r] = Rejected(q, ErrGenerate)]
                              /\ UNCHANGED urlDatabase
                       ELSE StoreShortUrl(r, finalShortCode, "svc_stored")
    /\ UNCHANGED env

\* createShortUrl's Log (36 or 49) returns and it throws (42 or 55): its
\* promise is rejected.
SvcCreateShortUrlThrows(r) ==
    /\ impl = "controller" /\ req[r].kind = "create"
    /\ req[r].pc \in {"svc_collision", "svc_badformat"}
    /\ EventLoopFree /\ AwaitLog
    /\ req' = [req EXCEPT ![r] =
                 Rejected(@, IF req[r].pc = "svc_collision"
                             THEN ErrCollision ELSE ErrBadFormat)]
    /\ UNCHANGED <<env, urlDatabase, now>>

\* createUrl resumes in its catch block with the error createShortUrl threw
\* and runs to the Log of the branch its message picks (83, 93 or 106).
CtlCreateCatch(r) ==
    /\ impl = "controller" /\ req[r].kind = "create"
    /\ req[r].pc = "svc_rejected"
    /\ EventLoopFree
    /\ req' = [req EXCEPT ![r] =
                 IF req[r].thrown = ErrCollision
                 THEN Fail(@, 409, "Shortcode already exists")
                 ELSE IF req[r].thrown = ErrBadFormat
                 THEN Fail(@, 400, "Shortcode must be alphanumeric, 3-10 characters")
                 ELSE Fail(@, 500, "Internal server error")]
    /\ UNCHANGED <<env, urlDatabase, now>>

\* createShortUrl's last Log (87) returns and it returns the record: its
\* promise is fulfilled.
SvcCreateShortUrlReturns(r) ==
    /\ impl = "controller" /\ req[r].kind = "create" /\ req[r].pc = "svc_stored"
    /\ EventLoopFree /\ AwaitLog
    /\ req' = [req EXCEPT ![r].pc = "svc_fulfilled"]
    /\ UNCHANGED <<env, urlDatabase, now>>

\* createUrl resumes with the record and goes on to its Log of line 66.
CtlCreateSuccess(r) ==
    /\ impl = "controller" /\ req[r].kind = "create" /\ req[r].pc = "svc_fulfilled"
    /\ EventLoopFree
    /\ req' = [req EXCEPT ![r].pc = "reply"]
    /\ UNCHANGED <<env, urlDatabase, now>>

\* --------------------------------------------- POST /shorturls, monolith
\* app.post('/shorturls') after its first Log: lines 44-99, to the next Log.
MonoPostShorturls(r) ==
    /\ impl = "monolith" /\ req[r].kind = "create" /\ req[r].pc = "entry"
    /\ EventLoopFree /\ AwaitLog
    /\ LET q == req[r]
           shortcode == q.shortcode
       IN IF ~TruthyStr(q.url) THEN Reject(r, Fail(q, 400, "URL is required"))
          ELSE IF ~isValidUrl(q.url.val) THEN Reject(r, Fail(q, 400, "Invalid URL format"))
          ELSE IF ValidityNotPositive(q.validity)
               THEN Reject(r, Fail(q, 400, "Validity must be positive integer"))
          ELSE IF TruthyCode(shortcode)
          THEN IF Has(urlDatabase, shortcode.val)
               THEN Reject(r, Fail(q, 409, "Shortcode already exists"))
               ELSE IF ~ShortcodeFormatOk(shortcode.val)
               THEN Reject(r, Fail(q, 400, "Shortcode must be alphanumeric, 3-10 characters"))
               ELSE StoreShortUrl(r, shortcode.val, "log2")
          ELSE IF GeneratorExhausted(urlDatabase)
          THEN /\ req' = [req EXCEPT ![r].pc = "spin"]
               /\ UNCHANGED <<urlDatabase, now>>
          ELSE \E digits \in random :
                 LET finalShortCode == generateShortCode(digits)
                 IN /\ ~Has(urlDatabase, finalShortCode)
                    /\ StoreShortUrl(r, finalShortCode, "log2")
    /\ UNCHANGED env

\* ----------------------------------------------- GET /:shortcode, controller
\* redirectUrl's first Log returns; it calls getUrlByShortcode, which awaits
\* its Log (98).  getStatistics starts the same way (181, 189).
CtlCallGetUrlByShortcode(r) ==
    /\ impl = "controller" /\ req[r].kind \in {"visit", "stats"} /\ req[r].pc = "entry"
    /\ EventLoopFree /\ AwaitLog
    /\ req' = [req EXCEPT ![r].pc = "svc_lookup"]
    /\ UNCHANGED <<env, urlDatabase, now>>

\* The record a visit found is not expired: its click is recorded (the clock is
\* read again for the timestamp) and the handler awaits the next Log.
VisitRecordClick(r, t1, pcNext) ==
    \E t2 \in Readings(t1) :
        LET q == req[r]
            code == q.shortcode.val
            clickData == ClickData(t2, q.referer, LocationOf(q.ip))
        IN /\ urlDatabase' = recordClick(urlDatabase, code, clickData)
           /\ now' = t2
           /\ req' = [req EXCEPT ![r] =
                        [q EXCEPT !.pc = pcNext, !.tcheck = t1, !.status = 302,
                                  !.location = urlDatabase[code].originalUrl]]

\* Mutant: a lapsed link is reported as if it had never existed.
VisitLookupLapsedNotFound(r, found, pcNext) ==
    LET q == req[r]
        code == q.shortcode.val
    IN IF ~found
       THEN /\ req' = [req EXCEPT ![r] = Fail(q, 404, "Short URL not found")]
            /\ UNCHANGED <<urlDatabase, now>>
       ELSE \E t1 \in Readings(now) :
              IF isExpired(urlDatabase[code], t1)
              THEN /\ req' = [req EXCEPT ![r] =
                                [Fail(q, 404, "Short URL not found") EXCEPT !.tcheck = t1]]
                   /\ now' = t1
                   /\ UNCHANGED urlDatabase
              ELSE VisitRecordClick(r, t1, pcNext)

\* Lines 131-154 of the controller, 126-147 of the monolith, with `found`
\* telling whether the lookup gave a record: 404, or check the expiry and
\* record the click on the record (the object the lookup gave is the one the
\* registry holds).
VisitLookup(r, found, pcNext) ==
    LET q == req[r]
        code == q.shortcode.val
    IN IF ~found
       THEN /\ req' = [req EXCEPT ![r] = Fail(q, 404, "Short URL not found")]
            /\ UNCHANGED <<urlDatabase, now>>
       ELSE \E t1 \in Readings(now) :
              IF isExpired(urlDatabase[code], t1)
              THEN /\ req' = [req EXCEPT ![r] =
                                [Fail(q, 410, "Short URL has expired") EXCEPT !.tcheck = t1]]
                   /\ now' = t1
                   /\ UNCHANGED urlDatabase
              ELSE VisitRecordClick(r, t1, pcNext)

\* getUrlByShortcode's Log returns and it returns urlDatabase.get(shortcode)
\* || null (line 104).  The handler that awaits it (redirectUrl 129,
\* getStatistics 189) goes on in a later turn, with what was read here.
SvcGetUrlByShortcode(r) ==
    /\ impl = "controller" /\ req[r].kind \in {"visit", "stats"}
    /\ req[r].pc = "svc_lookup"
    /\ EventLoopFree /\ AwaitLog
    /\ req' = [req EXCEPT ![r].pc = "svc_returned",
                          ![r].found = Found(urlDatabase, req[r].shortcode.val)]
    /\ UNCHANGED <<env, urlDatabase, now>>

\* redirectUrl resumes with the record or null and runs lines 131-154, into
\* recordClick up to its Log (124).
CtlRedirectLookup(r) ==
    /\ impl = "controller" /\ req[r].kind = "visit" /\ req[r].pc = "svc_returned"
    /\ EventLoopFree
    /\ VisitLookup(r, req[r].found, "svc_clicked")
    /\ UNCHANGED env

\* recordClick's Log (124) returns and it returns: its promise is fulfilled.
SvcRecordClickReturns(r) ==
    /\ impl = "controller" /\ req[r].kind = "visit" /\ req[r].pc = "svc_clicked"
    /\ EventLoopFree /\ AwaitLog
    /\ req' = [req EXCEPT ![r].pc = "svc_recorded"]
    /\ UNCHANGED <<env, urlDatabase, now>>

\* redirectUrl resumes after recordClick and awaits its Log (156).
CtlRedirectSuccess(r) ==
    /\ impl = "controller" /\ req[r].kind = "visit" /\ req[r].pc = "svc_recorded"
    /\ EventLoopFree
    /\ req' = [req EXCEPT ![r].pc = "reply"]
    /\ UNCHANGED <<env, urlDatabase, now>>

\* ------------------------------------------------- GET /:shortcode, monolith
\* app.get('/:shortcode') after its first Log: lines 124-147.
MonoGetShortcode(r) ==
    /\ impl = "monolith" /\ req[r].kind = "visit" /\ req[r].pc = "entry"
    /\ EventLoopFree /\ AwaitLog
    /\ VisitLookup(r, Found(urlDatabase, req[r].shortcode.val), "log2")
    /\ UNCHANGED env

\* ---------------------------------------------- GET /shorturls/:shortcode
\* Lines 191-219 of the controller, 169-190 of the monolith, with `found`
\* telling whether the lookup gave a record: 404, or build the statistics
\* object from the record as it is now and await the next Log; when
\* expiry.toISOString() throws, the catch block (234, 197) runs to its Log.
StatsLookup(r, found) ==
    LET q == req[r]
        code == q.shortcode.val
    IN /\ req' = [req EXCEPT ![r] =
                    IF ~found
                    THEN Fail(q, 404, "Short URL not found")
                    ELSE IF ToISOStringThrows(urlDatabase[code].expiry)
                    THEN Fail(q, 500, "Internal server error")
                    ELSE [q EXCEPT !.pc = "log2", !.status = 200, !.tcheck = now,
                                   !.statistics = <<Statistics(urlDatabase[code])>>]]
       /\ UNCHANGED <<env, urlDatabase, now>>

\* getStatistics resumes with the record or null: lines 191-219.
CtlStatisticsLookup(r) ==
    /\ impl = "controller" /\ req[r].kind = "stats" /\ req[r].pc = "svc_returned"
    /\ EventLoopFree
    /\ StatsLookup(r, req[r].found)

\* app.get('/shorturls/:shortcode') after its first Log: lines 167-190.
MonoGetStatistics(r) ==
    /\ impl = "monolith" /\ req[r].kind = "stats" /\ req[r].pc = "entry"
    /\ EventLoopFree /\ AwaitLog
    /\ StatsLookup(r, Found(urlDatabase, req[r].shortcode.val))

\* ------------------------------------------------------------ common steps
\* The first of two Logs in a row returns and the second is awaited (monolith
\* 101-102, 147-148, 192-193; controller 220-226).
LogAgain(r) ==
    /\ req[r].pc = "log2"
    /\ EventLoopFree /\ AwaitLog
    /\ req' = [req EXCEPT ![r].pc = "reply"]
    /\ UNCHANGED <<env, urlDatabase, now>>

\* The answer of a creation cannot be built: the expiry of the record it
\* stored is an Invalid Date.
ResponseThrows(r) ==
    /\ req[r].kind = "create" /\ req[r].status = 201
    /\ ToISOStringThrows(urlDatabase[req[r].finalShortCode.val].expiry)

\* The last Log of a creation returns, expiry.toISOString() throws in the
\* response literal (controller 74-77, monolith 105-108) and the catch block
\* runs to its Log (106, 111); the record stays in the registry.
ReplyThrows(r) ==
    /\ req[r].pc = "reply"
    /\ ResponseThrows(r)
    /\ EventLoopFree /\ AwaitLog
    /\ req' = [req EXCEPT ![r] = Fail(@, 500, "Internal server error")]
    /\ UNCHANGED <<env, urlDatabase, now>>

\* The last Log returns and the response is sent.
Reply(r) ==
    /\ req[r].pc = "reply"
    /\ ~ResponseThrows(r)
    /\ EventLoopFree /\ AwaitLog
    /\ req' = [req EXCEPT ![r].pc = "done"]
    /\ UNCHANGED <<env, urlDatabase, now>>

\* Time passes.
Tick ==
    /\ now < MaxTime
    /\ now' = now + 1
    /\ UNCHANGED <<env, urlDatabase, req>>

Next ==
    \/ \E r \in Slots : PostShortUrls(r)
    \/ \E r \in Slots : GetShortcode(r)
    \/ \E r \in Slots : GetShorturlsShortcode(r)
    \/ \E r \in Slots : GetHealth(r)
    \/ \E r \in Slots : CtlCreateUrl(r)
    \/ \E r \in Slots : SvcCreateShortUrl(r)
    \/ \E r \in Slots : SvcCreateShortUrlThrows(r)
    \/ \E r \in Slots : CtlCreateCatch(r)
    \/ \E r \in Slots : SvcCreateShortUrlReturns(r)
    \/ \E r \in Slots : CtlCreateSuccess(r)
    \/ \E r \in Slots : MonoPostShorturls(r)
    \/ \E r \in Slots : CtlCallGetUrlByShortcode(r)
    \/ \E r \in Slots : SvcGetUrlByShortcode(r)
    \/ \E r \in Slots : CtlRedirectLookup(r)
    \/ \E r \in Slots : SvcRecordClickReturns(r)
    \/ \E r \in Slots : CtlRedirectSuccess(r)
    \/ \E r \in Slots : MonoGetShortcode(r)
    \/ \E r \in Slots : CtlStatisticsLookup(r)
    \/ \E r \in Slots : MonoGetStatistics(r)
    \/ \E r \in Slots : LogAgain(r)
    \/ \E r \in Slots : ReplyThrows(r)
    \/ \E r \in Slots : Reply(r)
    \/ Tick

Spec == Init /\ [][Next]_vars

\* ================================================================== claims
Creates == {r \in Slots : req[r].kind = "create"}
Visits == {r \in Slots : req[r].kind = "visit"}
StatsReqs == {r \in Slots : req[r].kind = "stats"}

\* The service function the handler of r awaits has settled (returned or
\* thrown) and the handler has not resumed yet: no Log call is under way.
ServiceSettled(r) ==
    req[r].pc \in {"svc_returned", "svc_rejected", "svc_fulfilled", "svc_recorded"}

\* The handler of r is suspended in `await Log(...)`, its response unsent:
\* it is neither in the generator's loop, nor waiting for the turn in which it
\* resumes after a service function, nor abandoned.
AwaitingLog(r) ==
    InFlight(r) /\ ~ServiceSettled(r) /\ req[r].pc \notin {"spin", "unhandled"}

\* The lookup of a visit or a statistics request: the step that reads the
\* registry (urlDatabase.get), taken by the service for the controller and by
\* the handler itself in the monolith.
LooksUp(r) ==
    /\ req[r].kind \in {"visit", "stats"}
    /\ req[r].pc = (IF impl = "controller" THEN "svc_lookup" ELSE "entry")
    /\ req'[r] # req[r]

\* What the lookup of r gave, in the step in which the handler acts on it.
GaveRecord(r) ==
    IF impl = "controller" THEN req[r].found
    ELSE Found(urlDatabase, req[r].shortcode.val)

\* The request passes the url and validity checks of a creation.
PassesUrlAndValidity(q) ==
    TruthyStr(q.url) /\ isValidUrl(q.url.val) /\ ~ValidityNotPositive(q.validity)

\* The click a visit records, whatever its timestamp.
IsClickOf(click, q) ==
    /\ click.referrer = q.referer
    /\ click.location = LocationOf(q.ip)
    /\ click.timestamp >= q.tcheck

\* ---- C1
\* C1: in every reachable state, with any requests suspended at their awaits,
\* every record's clickCount equals the length of its clicks.
C1_ClickCountIsLength ==
    \A c \in DOMAIN urlDatabase :
        urlDatabase[c].clickCount = Len(urlDatabase[c].clicks)

\* Two clicks are recorded while a visit and another request are in flight.
C1_Witness ==
    \E c \in DOMAIN urlDatabase : \E r1, r2 \in Slots :
        /\ urlDatabase[c].clickCount = 2
        /\ r1 # r2 /\ InFlight(r1) /\ InFlight(r2)
        /\ req[r1].kind = "visit" /\ req[r1].status = 302

\* ---- C2
\* C2: a creation that passes the url and validity checks and names a code
\* that was a key of the registry when it arrived is answered 409; no step of
\* a creation changes a record that exists; and a code keeps the record first
\* stored under it (same originalUrl, expiry, createdAt).
C2_TakenCodeIsCollision ==
    [][ /\ \A r \in Creates :
             /\ (/\ req[r].pc # "done" /\ req'[r].pc = "done"
                 /\ PassesUrlAndValidity(req[r])
                 /\ req[r].shortcode.given /\ ~req[r].free0)
                => req'[r].status = 409
             /\ req'[r] # req[r]
                => \A c \in DOMAIN urlDatabase :
                     c \in DOMAIN urlDatabase' /\ urlDatabase'[c] = urlDatabase[c]
        /\ \A c \in DOMAIN urlDatabase :
             /\ c \in DOMAIN urlDatabase'
             /\ urlDatabase'[c].originalUrl = urlDatabase[c].originalUrl
             /\ urlDatabase'[c].expiry = urlDatabase[c].expiry
             /\ urlDatabase'[c].createdAt = urlDatabase[c].createdAt ]_vars

\* ---- C3
\* C3: a creation that passes the url and validity checks and requests a code
\* that does not match ^[A-Za-z0-9]{3,10}$ is answered 400 with the shortcode
\* format error, whatever the registry holds.
C3_BadCodeIsInvalidFormat ==
    \A r \in Creates :
        (/\ Responded(r)
         /\ PassesUrlAndValidity(req[r])
         /\ req[r].shortcode.given /\ ~MatchesSpecPattern(req[r].shortcode.val))
        => /\ req[r].status = 400
           /\ req[r].error = "Shortcode must be alphanumeric, 3-10 characters"

\* ---- C4
\* C4: a visit that finds the record and reads the clock at t is redirected
\* (302 to originalUrl, its click in the record) whenever t <= expiry, the
\* instant t = expiry included, and is answered 410 whenever t > expiry; a
\* record whose expiry is an Invalid Date has no instant of expiry and its
\* visits are redirected; a visit that finds no record never reads the clock
\* and is answered 404.
C4_ExpiryBoundary ==
    \A r \in Visits :
        LET q == req[r]
            code == q.shortcode.val
        IN /\ q.tcheck >= 0 =>
                /\ Found(urlDatabase, code)
                /\ (urlDatabase[code].expiry = NaN
                      \/ q.tcheck <= urlDatabase[code].expiry) =>
                     /\ q.status = 302
                     /\ q.location = urlDatabase[code].originalUrl
                     /\ \E i \in 1..Len(urlDatabase[code].clicks) :
                            IsClickOf(urlDatabase[code].clicks[i], q)
                /\ (urlDatabase[code].expiry # NaN
                      /\ q.tcheck > urlDatabase[code].expiry) => q.status = 410
           /\ q.status \in {302, 410} => q.tcheck >= 0
           /\ q.status = 404 => q.tcheck = -1

\* One visit is redirected at the very instant of expiry, a later one gets 410.
C4_Witness ==
    \E r1, r2 \in Visits :
        /\ Responded(r1) /\ Responded(r2)
        /\ req[r1].shortcode = req[r2].shortcode
        /\ Found(urlDatabase, req[r1].shortcode.val)
        /\ req[r1].tcheck = urlDatabase[req[r1].shortcode.val].expiry
        /\ req[r1].tcheck >= urlDatabase[req[r1].shortcode.val].createdAt
        /\ req[r1].status = 302
        /\ req[r2].tcheck > urlDatabase[req[r2].shortcode.val].expiry
        /\ req[r2].status = 410

\* ---- C5
\* C5: every step of a creation that is not on its way to 201 leaves the
\* registry as it was, and a validation error (400, 409) once decided is
\* never revised: a creation answered with one has stored nothing.
C5_FailedCreateLeavesRegistry ==
    [][ \A r \in Creates :
          /\ (req'[r] # req[r] /\ req'[r].status # 201) => urlDatabase' = urlDatabase
          /\ req[r].status \in {400, 409} => req'[r].status = req[r].status
          /\ req'[r].status \in {400, 409} =>
                /\ req[r].status \in {0, req'[r].status}
                /\ ~req'[r].finalShortCode.given ]_vars

\* A creation with validity -5 minutes is answered 400 and its code is still
\* not found.
C5_Witness ==
    \E r \in Creates :
        /\ Responded(r) /\ req[r].status = 400
        /\ req[r].error = "Validity must be positive integer"
        /\ req[r].validity.given /\ req[r].validity.val < 0
        /\ req[r].shortcode.given /\ ~Found(urlDatabase, req[r].shortcode.val)
        /\ urlDatabase # EmptyMap

\* ---- C6
\* C6: the step that stores a creation's record leaves under the returned code
\* a record with originalUrl = url, clickCount = 0, clicks = <<>> and
\* expiry = the clock reading of the creation + validity (30 minutes when
\* validity is omitted).
C6_CreateThenLookup ==
    [][ \A r \in Creates :
          (req[r].status = 0 /\ req'[r].status = 201) =>
             LET q == req'[r]
                 code == q.finalShortCode.val
             IN /\ q.finalShortCode.given /\ q.shortLink = Some(code)
                /\ Found(urlDatabase', code)
                /\ urlDatabase'[code].originalUrl = q.url.val
                /\ urlDatabase'[code].clickCount = 0
                /\ urlDatabase'[code].clicks = <<>>
                /\ PartsPerMinute * (urlDatabase'[code].expiry - q.texp) =
                     (IF q.validity.given THEN q.validity.val
                      ELSE 30 * PartsPerMinute) ]_vars

\* ---- C7
\* C7: a statistics request whose lookup finds the code in the registry,
\* lapsed or not, is answered 200 with the record's count, url, dates (the
\* expiry date as stored) and one detail per click, and one whose lookup
\* does not is answered 404; no step of a statistics request changes the
\* registry.
C7_StatisticsReadOnly ==
    [][ \A r \in StatsReqs :
          /\ req'[r] # req[r] => urlDatabase' = urlDatabase
          /\ (LooksUp(r) /\ impl = "controller")
                => req'[r].found = (req[r].shortcode.val \in DOMAIN urlDatabase)
          /\ (req[r].status = 0 /\ req'[r].status # 0) =>
               LET code == req[r].shortcode.val
               IN IF GaveRecord(r)
                  THEN /\ req'[r].status = 200
                       /\ Len(req'[r].statistics) = 1
                       /\ LET st == req'[r].statistics[1]
                              rec == urlDatabase[code]
                          IN /\ st.totalClicks = rec.clickCount
                             /\ st.originalUrl = rec.originalUrl
                             /\ st.creationDate.iso = rec.createdAt
                             /\ st.expiryDate.iso = rec.expiry
                             /\ Len(st.clickDetails) = Len(rec.clicks)
                             /\ \A i \in 1..Len(rec.clicks) :
                                  st.clickDetails[i].timestamp.iso = rec.clicks[i].timestamp
                  ELSE req'[r].status = 404
          /\ (req[r].status = 200 /\ req'[r].pc = "done") =>
               /\ req'[r].status = 200 /\ req'[r].statistics = req[r].statistics ]_vars

\* ---- C8
\* C8: no response waits for a Log call: a handler is never suspended in
\* `await Log(...)` with its response still unsent.
C8_NoResponseAwaitsLog == \A r \in Slots : ~AwaitingLog(r)

\* ---- C9
\* The creations racing for code c: they pass the url and validity checks,
\* name c, and arrived while c was not in the registry.
Racers(c) ==
    {r \in Creates : /\ req[r].pc # "new"
                     /\ PassesUrlAndValidity(req[r])
                     /\ req[r].shortcode = Some(c) /\ req[r].free0}

RaceCodes == {c \in {req[r].shortcode.val : r \in Creates} : MatchesSpecPattern(c)}

\* C9 as stated, for requests that are valid apart from the race (racers,
\* for a code of the legal format): once two or more racers for a code have
\* all been answered, exactly one of them got 201 and every other one 409.
C9_ExactlyOneWinner ==
    \A c \in RaceCodes :
        (Cardinality(Racers(c)) >= 2 /\ \A r \in Racers(c) : Responded(r))
        => /\ Cardinality({r \in Racers(c) : req[r].status = 201}) = 1
           /\ \A r \in Racers(c) : req[r].status \in {201, 409}

\* Racer r has stored its record under c.
StoredBy(r, c) == req[r].finalShortCode = Some(c)

\* C9, amended, for the same requests: among two or more racers for a code
\* of the legal format at most one stores its record; the one that stores is
\* answered 201 with the expiry stored, or 500
\* when that expiry is an Invalid Date and cannot be printed, and its record
\* stays; every other one is answered 409; once all are answered the code is
\* in the registry, and exactly one of them stored unless a creation without
\* a requested code was given that code by the generator.
C9_AtMostOneWinner ==
    \A c \in RaceCodes :
        Cardinality(Racers(c)) >= 2 =>
           /\ Cardinality({r \in Racers(c) : StoredBy(r, c)}) <= 1
           /\ \A r \in Racers(c) :
                /\ req[r].status \in {0, 201, 409, 500}
                /\ req[r].status \in {201, 500} <=> StoredBy(r, c)
                /\ StoredBy(r, c) =>
                     /\ Found(urlDatabase, c)
                     /\ urlDatabase[c].originalUrl = req[r].url.val
                     /\ req[r].status = 500
                           => ToISOStringThrows(urlDatabase[c].expiry)
                     /\ ~ToISOStringThrows(urlDatabase[c].expiry)
                           => urlDatabase[c].expiry = req[r].expiry.iso
                     /\ (Responded(r) /\ req[r].status = 201)
                           => ~ToISOStringThrows(urlDatabase[c].expiry)
           /\ (\A r \in Racers(c) : Responded(r)) =>
                /\ Found(urlDatabase, c)
                /\ \/ Cardinality({r \in Racers(c) : StoredBy(r, c)}) = 1
                   \/ \E g \in Creates :
                        /\ ~TruthyCode(req[g].shortcode)
                        /\ req[g].status = 201 /\ req[g].finalShortCode = Some(c)

\* Two racers with different urls are both answered, one 201 and one 409, and
\* the registry holds the winner's url.
C9_Witness ==
    \E r1, r2 \in Racers(Code0k9) :
        /\ Responded(r1) /\ Responded(r2)
        /\ req[r1].status = 201 /\ req[r2].status = 409
        /\ req[r1].url # req[r2].url
        /\ urlDatabase[Code0k9].originalUrl = req[r1].url.val

\* ---- C10
\* C10: every visit that passed the expiry check has its click in the record:
\* a record's clickCount and the length of its clicks equal the number of
\* visits to its code that recorded a click, whatever the interleaving.
C10_NoLostClick ==
    \A c \in DOMAIN urlDatabase :
        LET clicked == {r \in Visits : req[r].shortcode.val = c /\ req[r].status = 302}
        IN /\ urlDatabase[c].clickCount = Cardinality(clicked)
           /\ Len(urlDatabase[c].clicks) = Cardinality(clicked)
           /\ \A r \in clicked :
                \E i \in 1..Len(urlDatabase[c].clicks) :
                    IsClickOf(urlDatabase[c].clicks[i], req[r])

\* Two visits of different visitors are in flight at once, both past their
\* click, and the record counts two.
C10_Witness ==
    \E r1, r2 \in Visits :
        /\ r1 # r2 /\ InFlight(r1) /\ InFlight(r2)
        /\ req[r1].shortcode = req[r2].shortcode
        /\ req[r1].referer # req[r2].referer
        /\ req[r1].status = 302 /\ req[r2].status = 302
        /\ urlDatabase[req[r1].shortcode.val].clickCount = 2
        /\ Len(urlDatabase[req[r1].shortcode.val].clicks) = 2

\* ---- C11
\* C11: a visit is answered 404 only when its lookup found no record, which
\* happens only while its code is not in the registry and no creation has
\* stored it, and 410 only when its code is in the registry and the clock it
\* read is past the expiry; an answer once decided is not revised; and once
\* a visit to a code has been answered 410, every visit to that code that
\* looks it up afterwards finds the record and is answered 410 too.
C11_NotFoundAndExpiredTerminal ==
    [][ \A r \in Visits :
          LET q == req[r]
              code == q.shortcode.val
          IN /\ q.status # 0 => req'[r].status = q.status
             /\ (q.status = 0 /\ req'[r].status # 0) =>
                  /\ req'[r].status \in {302, 404, 410}
                  /\ req'[r].status = 404 <=> ~GaveRecord(r)
                  /\ req'[r].status = 410 =>
                       /\ Found(urlDatabase, code)
                       /\ req'[r].tcheck > urlDatabase[code].expiry
                  /\ (\E r0 \in Visits : /\ req[r0].shortcode = q.shortcode
                                          /\ req[r0].status = 410)
                     => req'[r].status = (IF GaveRecord(r) THEN 410 ELSE 404)
             /\ LooksUp(r) =>
                  LET gave == IF impl = "controller" THEN req'[r].found
                              ELSE req'[r].status # 404
                  IN /\ ~gave => /\ ~Found(urlDatabase, code)
                                 /\ \A g \in Creates :
                                       req[g].finalShortCode # Some(code)
                     /\ (\E r0 \in Visits : /\ req[r0].shortcode = q.shortcode
                                             /\ req[r0].status = 410)
                        => gave ]_vars

\* Two visits to one lapsed code have both been answered 410.
C11_Witness ==
    \E r1, r2 \in Visits :
        /\ r1 # r2 /\ Responded(r1) /\ Responded(r2)
        /\ req[r1].shortcode = req[r2].shortcode
        /\ req[r1].status = 410 /\ req[r2].status = 410
        /\ Found(urlDatabase, req[r1].shortcode.val)
        /\ req[r2].tcheck >= req[r1].tcheck

\* ---- C12
\* The request is GET /health.
IsGetHealth(q) == q.method = "GET" /\ q.path = <<CodeHealth>>

\* C12: GET /health is never given to the redirect handler and is answered
\* 200, never 302, 404 or 410, whether or not the registry holds a record
\* under the code "health".
C12_HealthAlwaysOk ==
    \A r \in Slots :
        IsGetHealth(req[r]) =>
            /\ req[r].kind # "visit"
            /\ req[r].status \in {0, 200}

\* ---- C13
\* C13: every key of the registry matches ^[A-Za-z0-9]{3,10}$, every record's
\* shortCode is the key it is stored under, and every code the generator gave
\* to a creation is exactly 6 characters long.
C13_KeysWellFormed ==
    /\ \A c \in DOMAIN urlDatabase :
          /\ MatchesSpecPattern(c)
          /\ urlDatabase[c].shortCode = c
    /\ \A r \in Creates :
          (~TruthyCode(req[r].shortcode) /\ req[r].finalShortCode.given)
          => Len(req[r].finalShortCode.val) = GenLen

\* ---- C14
\* C14: across every step, every key of the registry stays a key and its
\* record keeps its id, shortCode, originalUrl, createdAt and expiry; only
\* clicks and clickCount of a record ever change.
C14_RecordsKeptAndFixed ==
    [][ \A c \in DOMAIN urlDatabase :
          /\ c \in DOMAIN urlDatabase'
          /\ urlDatabase'[c] = [urlDatabase[c] EXCEPT
                                  !.clicks = urlDatabase'[c].clicks,
                                  !.clickCount = urlDatabase'[c].clickCount] ]_vars

\* A link that has lapsed and was visited is still in the registry after a
\* creation with another url asked for its code and was answered 409.
C14_Witness ==
    \E c \in DOMAIN urlDatabase : \E r \in Creates :
        /\ urlDatabase[c].clickCount >= 1
        /\ now > urlDatabase[c].expiry
        /\ Responded(r) /\ req[r].status = 409
        /\ req[r].shortcode = Some(c)
        /\ req[r].url.val # urlDatabase[c].originalUrl

\* ---- C15
\* C15: a creation without a requested code is never left retrying the
\* generator without end: when every code the generator can produce is taken
\* it is answered with an error, and the other requests go on being served.
C15_GeneratedCreateCompletes ==
    \A r \in Creates :
        /\ ~Spinning(r)
        /\ (InFlight(r) /\ ~TruthyCode(req[r].shortcode)) => EventLoopFree

\* ---- C16
\* What a handler or the service function it called does once the Log call
\* it awaits has come back normally.
Continue(r) ==
    \/ CtlCreateUrl(r) \/ SvcCreateShortUrl(r) \/ SvcCreateShortUrlThrows(r)
    \/ SvcCreateShortUrlReturns(r) \/ MonoPostShorturls(r)
    \/ CtlCallGetUrlByShortcode(r) \/ SvcGetUrlByShortcode(r)
    \/ SvcRecordClickReturns(r) \/ MonoGetShortcode(r)
    \/ MonoGetStatistics(r)
    \/ LogAgain(r) \/ ReplyThrows(r) \/ Reply(r)

\* The Log call r awaits is one of a service function (29, 36, 49, 87, 98,
\* 124 of the service).
InService(r) ==
    req[r].pc \in {"svc_create", "svc_collision", "svc_badformat", "svc_stored",
                   "svc_lookup", "svc_clicked"}

\* The Log call r awaits is outside every try block.  It is one of a catch
\* block (controller 83, 93, 106, 166, 235; monolith 111, 154, 198), where
\* the handler has decided on 500 or, in createUrl, on the answer to an error
\* createShortUrl threw; or the one of the health handler (monolith 205).
OutsideTry(r) ==
    /\ req[r].pc = "reply"
    /\ \/ req[r].status = 500
       \/ req[r].kind = "health"
       \/ /\ impl = "controller" /\ req[r].kind = "create"
          /\ req[r].status = 409 \/ req[r].error = ErrBadFormat

\* What would happen if the Log call r awaits raised into its caller: inside
\* a service function its promise is rejected with Log's error; inside a try
\* block the catch block runs to its Log, to answer 500; outside every try
\* block nothing catches it, the handler ends and no response is ever sent.
HandlerCatch(r) ==
    /\ req' = [req EXCEPT ![r] =
                 IF InService(r) THEN Rejected(@, "Log raised")
                 ELSE IF OutsideTry(r) THEN [@ EXCEPT !.pc = "unhandled"]
                 ELSE Fail(@, 500, "Internal server error")]
    /\ UNCHANGED <<env, urlDatabase, now>>

\* The outcomes of its request after which Log raises into its caller.
LogRaises == { outcome \in LogOutcomes : Log(outcome).raised }

\* C16: every step a handler takes after a Log call is the step it takes
\* whichever way that call ended (OK answer, answer that is not OK,
\* exception): Log never raises into the handler, so no outcome sends the
\* handler into its catch block, and the continuation, which discards Log's
\* value, decides response and registry.
C16_LogFailureChangesNothing ==
    [][ \A r \in Slots :
          (req'[r] # req[r] /\ AwaitingLog(r))
          => /\ LogRaises # {} => HandlerCatch(r)
             /\ LogRaises # LogOutcomes => Continue(r)
             /\ LogRaises = {} ]_vars

\* With a logger that fails at every call, a link was created, visited and
\* its statistics read: 201, 302 and 200 with the click.
C16_Witness ==
    /\ logger \in {"unreachable", "erroring"}
    /\ \E c, v, t \in Slots :
          /\ req[c].kind = "create" /\ Responded(c) /\ req[c].status = 201
          /\ req[v].kind = "visit" /\ Responded(v) /\ req[v].status = 302
          /\ req[t].kind = "stats" /\ Responded(t) /\ req[t].status = 200
          /\ req[t].statistics[1].totalClicks = 1
          /\ urlDatabase[req[c].finalShortCode.val].clickCount = 1

\* ---- C17
\* C17: the statistics of a 200 answer are one consistent snapshot of the
\* record: totalClicks is the number of entries of clickDetails, and the
\* entries are the first totalClicks clicks of the record, whatever visits
\* record clicks while the statistics request is in flight.
C17_StatisticsSnapshot ==
    \A r \in StatsReqs :
        req[r].status = 200 =>
            LET stats == req[r].statistics[1]
                shortUrl == urlDatabase[req[r].shortcode.val]
            IN /\ stats.totalClicks = Len(stats.clickDetails)
               /\ stats.totalClicks <= shortUrl.clickCount
               /\ \A i \in 1..stats.totalClicks :
                     stats.clickDetails[i] = ClickDetail(shortUrl.clicks[i])

\* A statistics request built its answer with no click, and while that
\* answer is still unsent a visit has recorded the first click of the record.
C17_Witness ==
    \E r \in StatsReqs :
        /\ InFlight(r) /\ req[r].status = 200
        /\ req[r].statistics[1].totalClicks = 0
        /\ req[r].statistics[1].clickDetails = <<>>
        /\ urlDatabase[req[r].shortcode.val].clickCount = 1
        /\ Len(urlDatabase[req[r].shortcode.val].clicks) = 1

\* ---- C18
\* The steps that take a visit from its recorded click to its 302 response:
\* in the controller recordClick returns after its Log (124) and redirectUrl
\* resumes and awaits its own (156); in the monolith the two Logs follow each
\* other (147-148); then the response is sent.
VisitResumes(r) ==
    \/ SvcRecordClickReturns(r) \/ CtlRedirectSuccess(r)
    \/ LogAgain(r) \/ Reply(r)

\* The visits to code c that were answered 302.
Redirected(c) ==
    {r \in Visits : req[r].shortcode.val = c /\ Responded(r) /\ req[r].status = 302}

\* C18: there is exactly one click per successful redirect: a visit answered
\* 404 or 410 has no click in the registry, no visit has more than one, a
\* visit whose click is recorded goes on to its 302 response (while the
\* response is unsent the handler's next step can be taken), and once no
\* visit is in flight every record has as many clicks as 302 responses.
C18_OneClickPerRedirect ==
    /\ \A c \in DOMAIN urlDatabase :
          /\ Len(urlDatabase[c].clicks)
                = Cardinality({r \in Visits : req[r].shortcode.val = c
                                              /\ req[r].status = 302})
          /\ (\A r \in Visits : ~InFlight(r))
                => Len(urlDatabase[c].clicks) = Cardinality(Redirected(c))
    /\ \A r \in Visits :
          /\ req[r].status \in {404, 410}
                => \A c \in DOMAIN urlDatabase :
                      \A i \in 1..Len(urlDatabase[c].clicks) :
                          IsClickOf(urlDatabase[c].clicks[i], req[r])
                          => \E v \in Visits \ {r} :
                                /\ req[v].status = 302 /\ req[v].shortcode.val = c
                                /\ IsClickOf(urlDatabase[c].clicks[i], req[v])
          /\ (InFlight(r) /\ req[r].status = 302) => ENABLED VisitResumes(r)

\* ---- C19
\* Visit r records its click in this step.
RecordsClick(r) ==
    /\ r \in Visits
    /\ req[r].pc \in {"entry", "svc_returned"}
    /\ req'[r].status = 302

\* C19: the click history is append-only and chronological: in every step
\* each record's clicks are a prefix of its clicks after the step, its
\* clickCount does not decrease and grows by at most 1, and only in a step
\* in which a visit to its code records its click; and the timestamps of its
\* clicks are in non-decreasing order.
C19_ClicksAppendOnlyInOrder ==
    [][ \A c \in DOMAIN urlDatabase :
          LET before == urlDatabase[c]
              after == urlDatabase'[c]
          IN /\ c \in DOMAIN urlDatabase'
             /\ Len(before.clicks) <= Len(after.clicks)
             /\ SubSeq(after.clicks, 1, Len(before.clicks)) = before.clicks
             /\ after.clickCount - before.clickCount \in {0, 1}
             /\ after.clickCount > before.clickCount
                   => \E r \in Slots : RecordsClick(r) /\ req[r].shortcode.val = c
             /\ \A i, j \in 1..Len(after.clicks) :
                   i < j => after.clicks[i].timestamp <= after.clicks[j].timestamp
      ]_vars

\* A record holds two clicks of different visitors, the second later on the
\* clock than the first.
C19_Witness ==
    \E c \in DOMAIN urlDatabase :
        /\ urlDatabase[c].clickCount = 2
        /\ Len(urlDatabase[c].clicks) = 2
        /\ urlDatabase[c].clicks[1].timestamp < urlDatabase[c].clicks[2].timestamp
        /\ urlDatabase[c].clicks[1].referrer # urlDatabase[c].clicks[2].referrer

\* ---- C20
\* What a creation comes to: the status of its answer and the key it stores
\* its record under, if any.
Outcome(status, key) == [status |-> status, key |-> key]

\* The answer to a creation that has stored its record, with t the clock
\* reading its expiry starts from: 201, or 500 when the expiry cannot be
\* printed (controller 74-77 and 106-112, monolith 105-112).
StoredStatus(q, tz, t) ==
    IF ToISOStringThrows(SetMinutesPlus(tz, t, IsHuge(q.validity),
                                        EffValidity(q.validity)))
    THEN 500 ELSE 201

\* UrlController.createUrl with UrlService.createShortUrl, as a function of
\* the registry, the request, the generator output that ends the do-while,
\* the time zone and the clock reading.
CtlCreateOutcome(db, q, digits, tz, t) ==
    IF ~TruthyStr(q.url) THEN Outcome(400, NoCode)
    ELSE IF ~isValidUrl(q.url.val) THEN Outcome(400, NoCode)
    ELSE IF ValidityNotPositive(q.validity) THEN Outcome(400, NoCode)
    ELSE IF TruthyCode(q.shortcode)
    THEN IF Has(db, q.shortcode.val) THEN Outcome(409, NoCode)
         ELSE IF ~ShortcodeFormatOk(q.shortcode.val) THEN Outcome(400, NoCode)
         ELSE Outcome(StoredStatus(q, tz, t), Some(q.shortcode.val))
    ELSE IF generateShortCode(digits) = <<>> THEN Outcome(500, NoCode)
    ELSE Outcome(StoredStatus(q, tz, t), Some(generateShortCode(digits)))

\* app.post('/shorturls') of the monolith, as the same function.
MonoCreateOutcome(db, q, digits, tz, t) ==
    IF ~TruthyStr(q.url) THEN Outcome(400, NoCode)
    ELSE IF ~isValidUrl(q.url.val) THEN Outcome(400, NoCode)
    ELSE IF ValidityNotPositive(q.validity) THEN Outcome(400, NoCode)
    ELSE IF TruthyCode(q.shortcode)
    THEN IF Has(db, q.shortcode.val) THEN Outcome(409, NoCode)
         ELSE IF ~ShortcodeFormatOk(q.shortcode.val) THEN Outcome(400, NoCode)
         ELSE Outcome(StoredStatus(q, tz, t), Some(q.shortcode.val))
    ELSE Outcome(StoredStatus(q, tz, t), Some(generateShortCode(digits)))

CreateOutcome(implName, db, q, digits, tz, t) ==
    IF implName = "controller" THEN CtlCreateOutcome(db, q, digits, tz, t)
    ELSE MonoCreateOutcome(db, q, digits, tz, t)

\* The step in which the creation r is decided: it leaves the code that
\* checks the request and stores the record.
CreateDecided(r) ==
    /\ req[r].kind = "create"
    /\ req[r].pc \in {"entry", "svc_create"}
    /\ req'[r].pc \notin {"entry", "svc_create", "spin"}

\* The outcome of that step: the status the answer will carry (for the two
\* errors the service throws, the one createUrl's catch block gives them;
\* for a stored record whose expiry cannot be printed, 500).
DecidedOutcome(r) ==
    Outcome(IF req'[r].pc = "svc_collision" THEN 409
            ELSE IF req'[r].pc = "svc_badformat" THEN 400
            ELSE IF req'[r].pc = "svc_rejected" THEN 500
            ELSE IF req'[r].status = 201
                    /\ ToISOStringThrows(urlDatabase'[req'[r].finalShortCode.val].expiry)
            THEN 500
            ELSE req'[r].status,
            IF urlDatabase' # urlDatabase THEN req'[r].finalShortCode ELSE NoCode)

\* C20: the two implementations are one design: whenever a creation is
\* decided, on the registry and the request at hand and for every output of
\* the generator that is not yet a key (short or empty ones included), the
\* controller with its service and the monolith come to the same status and
\* store under the same key; the implementation that runs comes to one of
\* these outcomes.  (Visits and statistics are the same code in both, the
\* lookup steps VisitLookup and StatsLookup.)
C20_ImplementationsAgree ==
    [][ \A r \in Slots :
          CreateDecided(r) =>
            /\ \E digits \in random : \E t \in Readings(now) :
                  DecidedOutcome(r)
                    = CreateOutcome(impl, urlDatabase, req[r], digits, zone, t)
            /\ \A digits \in random : \A t \in Readings(now) :
                  ~Has(urlDatabase, generateShortCode(digits))
                  => CtlCreateOutcome(urlDatabase, req[r], digits, zone, t)
                       = MonoCreateOutcome(urlDatabase, req[r], digits, zone, t) ]_vars

\* ---- C21
\* C21: no click is recorded on a lapsed link: after every step each click of
\* each record has a timestamp that is not past the record's expiry, and a
\* step taken once the clock has passed a record's expiry leaves the record's
\* clickCount and clicks as they were, also when the step is that of a visit
\* that was suspended in a Log call while the link lapsed.
C21_NoClickOnLapsedLink ==
    [][ \A c \in DOMAIN urlDatabase' :
          /\ \A i \in 1..Len(urlDatabase'[c].clicks) :
                urlDatabase'[c].clicks[i].timestamp <= urlDatabase'[c].expiry
          /\ (c \in DOMAIN urlDatabase /\ now > urlDatabase[c].expiry)
                => /\ urlDatabase'[c].clickCount = urlDatabase[c].clickCount
                   /\ urlDatabase'[c].clicks = urlDatabase[c].clicks ]_vars

====
